---- MODULE Spec2Model ----
(***************************************************************************)
(* The tailoring window of scap-workbench (src/src/TailoringWindow.cpp):   *)
(* the display tree and its synchronisation with the XCCDF benchmark, the  *)
(* four undo commands, the undo stack they are pushed on, the two property *)
(* panels with their refresh guards, and the close protocol.               *)
(***************************************************************************)
EXTENDS Integers, Sequences, FiniteSets, TLC

\* ------------------------------------------------------------------ bounds
MaxHist == 3         \* longest undo history of an editing session
MaxOverrides == 3    \* most select / setvalue overrides appended while editing
TreeHist == 4        \* longest undo history of a session of check-box toggles
TreeOverrides == 6   \* most select overrides appended by check-box toggles
CloseHist == 2       \* longest undo history of a session that is closed
CloseOverrides == 2  \* most overrides appended before a session is closed
MaxTrip == 3         \* longest run of pushes whose round trip is followed
MaxPre == 3          \* most display children a node has before a recursive synchronise
MaxTexts == 3        \* most (language, text) entries of a profile's title or description

\* ------------------------------------------------- the benchmark document
NoItem == "none"     \* a tree item whose Qt::UserRole data was never set (NULL)

XCCDF_BENCHMARK == "benchmark"
XCCDF_GROUP == "group"
XCCDF_RULE == "rule"
XCCDF_VALUE == "value"

\* The items of the benchmark the session is opened on: B > {V1, V2, G1},
\* G1 > G2 > G3 > R (a rule three groups below G1).
BenchmarkItems == {"B", "V1", "V2", "G1", "G2", "G3", "R"}
\* Items some stale display node still points to but the document no longer lists.
StaleItems == {"SV", "SW", "SG"}
AllItems == BenchmarkItems \cup StaleItems

xccdf_item_get_type(i) ==
    CASE i = "B" -> XCCDF_BENCHMARK
      [] i \in {"V1", "V2", "SV", "SW"} -> XCCDF_VALUE
      [] i \in {"G1", "G2", "G3", "SG"} -> XCCDF_GROUP
      [] OTHER -> XCCDF_RULE

\* xccdf_benchmark_get_values / xccdf_group_get_values, in document order
xccdf_get_values(i) ==
    CASE i = "B" -> <<"V1", "V2">>
      [] OTHER -> <<>>

\* xccdf_benchmark_get_content / xccdf_group_get_content, in document order
xccdf_get_content(i) ==
    CASE i = "B" -> <<"G1">>
      [] i = "G1" -> <<"G2">>
      [] i = "G2" -> <<"G3">>
      [] i = "G3" -> <<"R">>
      [] OTHER -> <<>>

\* xccdf_item_get_selected: the document's own default
xccdf_item_get_selected(i) == TRUE

\* the default instance of a Value item
xccdf_value_default(i) == "v0"

ValueItems == {i \in BenchmarkItems : xccdf_item_get_type(i) = XCCDF_VALUE}
ValueStrings == {"v0", "v1"}
TitleStrings == {"t0", "t1"}
DescStrings == {"d0", "d1"}
OSCAP_LANG_DEFAULT == "en-US"

Range(s) == {s[k] : k \in DOMAIN s}

\* ------------------------------------------------------------------- state
VARIABLES
    tree,                  \* mUI.itemsTree: the display nodes, by node number
    mSynchronizeItemLock,
    profileSelects,        \* xccdf_profile's selects, in the order added
    policySelects,         \* xccdf_policy's selects, in the order added
    setvalues,             \* xccdf_profile's setvalues, in the order added
    titles,                \* xccdf_profile_get_title: <<[lang, text]>>
    descriptions,          \* xccdf_profile_get_description
    command_list,          \* QUndoStack: the commands
    index,                 \* QUndoStack: the current position
    profilePanel,          \* ProfilePropertiesDockWidget
    itemPanel,             \* XCCDFItemPropertiesDockWidget
    mNewProfile,
    mChangesConfirmed,
    mParentMainWindow,     \* whether a parent MainWindow was given
    phase,                 \* "open", "closed", or "failed" after an exception
    notified,              \* MainWindow::notifyTailoringFinished calls received
    opened,                \* the model as it was when the session was opened
    lastOp,                \* the operation performed last
    trip                   \* the run of pushes, and the undos after it, under way

vars == <<tree, mSynchronizeItemLock, profileSelects, policySelects, setvalues,
          titles, descriptions, command_list, index, profilePanel, itemPanel,
          mNewProfile, mChangesConfirmed, mParentMainWindow, phase, notified,
          opened, lastOp, trip>>

\* The mutable program state as one value, threaded through the handlers.
World ==
    [tree |-> tree, lock |-> mSynchronizeItemLock,
     profileSelects |-> profileSelects, policySelects |-> policySelects,
     setvalues |-> setvalues, titles |-> titles, descriptions |-> descriptions,
     command_list |-> command_list, index |-> index,
     profilePanel |-> profilePanel, itemPanel |-> itemPanel,
     mNewProfile |-> mNewProfile, mChangesConfirmed |-> mChangesConfirmed,
     mParentMainWindow |-> mParentMainWindow, closed |-> FALSE,
     notified |-> notified, failed |-> FALSE]

\* Sequencing: the statement next runs on the state w the statements before it
\* left; Then skips it when one of them threw.
Do(w, next(_)) == next(w)

Then(w, next(_)) == IF w.failed THEN w ELSE next(w)

\* --------------------------------------------------- QTreeWidgetItem (Qt)
\* A display node.  disabled is the item's own (explicit) disabled flag,
\* enabled is Qt::ItemIsEnabled of its flags, which a child inherits from a
\* disabled parent; isDisabled() reads the latter.
NewTreeWidgetItem ==
    [item |-> NoItem, parent |-> 0, children |-> <<>>, checkable |-> FALSE,
     checked |-> FALSE, disabled |-> FALSE, enabled |-> TRUE, alive |-> TRUE]

RootNode == 1

getXccdfItemFromTreeItem(w, n) == w.tree[n].item

isDisabled(w, n) == ~w.tree[n].enabled

RECURSIVE propagateEnabled(_, _, _)
\* QTreeWidgetItem::setFlags, the walk that hands a changed enabled state down
\* to the descendants that are not disabled themselves
propagateEnabled(t, stack, enable) ==
    IF stack = <<>> THEN t
    ELSE LET p == stack[Len(stack)]
             rest == SubSeq(stack, 1, Len(stack) - 1)
             kids == SelectSeq(t[p].children, LAMBDA c : ~t[c].disabled)
             t1 == [m \in DOMAIN t |->
                       IF m \in Range(kids) THEN [t[m] EXCEPT !.enabled = enable]
                       ELSE t[m]]
         IN propagateEnabled(t1, rest \o kids, enable)

\* A Qt signal: emit runs the slot QObject::connect bound the signal to
\* (lines 47-55, 111-114 and 493-496) before the emitting call returns.
RECURSIVE emit(_, _, _)

\* QTreeWidgetItem::setFlags(flags), for the two flags the window uses; it ends
\* by emitting the tree's itemChanged signal
setFlags(w, n, enable, checkable) ==
    LET t == w.tree
        old == t[n]
        changedState == old.enabled # enable
        changedExplicit == old.disabled # ~enable
        inherit == enable /\ old.parent # 0 /\ ~t[old.parent].enabled
        t1 == [t EXCEPT ![n].disabled = ~enable,
                        ![n].enabled = IF inherit THEN FALSE ELSE enable,
                        ![n].checkable = checkable]
        t2 == IF changedState /\ changedExplicit
              THEN propagateEnabled(t1, <<n>>, enable) ELSE t1
    IN emit([w EXCEPT !.tree = t2], "itemChanged", n)

setDisabled(w, n, disabled) == setFlags(w, n, ~disabled, w.tree[n].checkable)

\* QTreeWidgetItem::setCheckState: an unchanged value emits nothing
setCheckState(w, n, checked) ==
    IF w.tree[n].checked = checked THEN w
    ELSE emit([w EXCEPT !.tree[n].checked = checked], "itemChanged", n)

\* QTreeWidgetItem::setData(0, Qt::UserRole, item)
setData(w, n, item) ==
    IF w.tree[n].item = item THEN w
    ELSE emit([w EXCEPT !.tree[n].item = item], "itemChanged", n)

RECURSIVE subtree(_, _)
subtree(t, n) ==
    {n} \cup UNION {subtree(t, t[n].children[k]) : k \in DOMAIN t[n].children}

\* delete childTreeItem: ~QTreeWidgetItem takes the node out of its parent's
\* child list and deletes its own children
deleteTreeItem(w, c) ==
    LET t == w.tree
        p == t[c].parent
        gone == subtree(t, c)
    IN [w EXCEPT !.tree =
           [m \in DOMAIN t |->
               IF m \in gone THEN [t[m] EXCEPT !.alive = FALSE, !.parent = 0]
               ELSE IF m = p
                    THEN [t[m] EXCEPT !.children = SelectSeq(t[m].children, LAMBDA x : x # c)]
                    ELSE t[m]]]

\* QTreeWidgetItem::insertChild(idx, child), idx counted from 0; an index past
\* the end inserts nothing
insertChild(w, n, idx, c) ==
    LET kids == w.tree[n].children
    IN IF idx < 0 \/ idx > Len(kids) THEN w
       ELSE [w EXCEPT !.tree[n].children =
                          SubSeq(kids, 1, idx) \o <<c>> \o SubSeq(kids, idx + 1, Len(kids)),
                      !.tree[c].parent = n]

\* ------------------------------------------------ enabled state of children
RECURSIVE syncXCCDFItemChildrenDisabledState(_, _, _)
RECURSIVE syncChildrenLoop(_, _, _, _)

syncChildrenLoop(w, n, enabled, i) ==
    IF i > Len(w.tree[n].children) THEN w
    ELSE LET c == w.tree[n].children[i]
             childEnabled == ~isDisabled(w, c)
         IN IF ~enabled /\ childEnabled
            THEN syncChildrenLoop(
                     syncXCCDFItemChildrenDisabledState(setDisabled(w, c, TRUE), c, FALSE),
                     n, enabled, i + 1)
            ELSE IF enabled /\ ~childEnabled
            THEN syncChildrenLoop(
                     syncXCCDFItemChildrenDisabledState(setDisabled(w, c, FALSE), c, TRUE),
                     n, enabled, i + 1)
            ELSE syncChildrenLoop(w, n, enabled, i + 1)


\* a faulty pass, which leaves the children as they are
Sync_leavesChildren(w, n, enabled) == w

syncXCCDFItemChildrenDisabledState(w, n, enabled) == syncChildrenLoop(w, n, enabled, 1)

RECURSIVE refreshXCCDFItemChildrenDisabledState(_, _, _)
RECURSIVE refreshChildrenLoop(_, _, _, _)

refreshChildrenLoop(w, n, allAncestorsSelected, i) ==
    IF i > Len(w.tree[n].children) THEN w
    ELSE LET c == w.tree[n].children[i]
         IN refreshChildrenLoop(
                refreshXCCDFItemChildrenDisabledState(
                    setDisabled(w, c, ~allAncestorsSelected), c, allAncestorsSelected),
                n, allAncestorsSelected, i + 1)

\* a faulty pass, which does not look at the node's own check state
Refresh_ignoresCheckState(w, n, allAncestorsSelected) ==
    refreshChildrenLoop(w, n, allAncestorsSelected, 1)

refreshXCCDFItemChildrenDisabledState(w, n, allAncestorsSelected) ==
    LET itemSelected == ~w.tree[n].checkable \/ w.tree[n].checked
    IN refreshChildrenLoop(w, n, allAncestorsSelected /\ itemSelected, 1)

\* ------------------------------------------------------- selection state
\* xccdf_policy_get_select_by_id: the select the policy holds for the id, the
\* one added last; 0 when there is none
xccdf_policy_get_select_by_id(selects, id) ==
    LET hits == {k \in DOMAIN selects : selects[k].item = id}
    IN IF hits = {} THEN 0 ELSE CHOOSE k \in hits : \A j \in hits : j <= k

getXccdfItemInternalSelected(selects, item) ==
    LET select == xccdf_policy_get_select_by_id(selects, item)
    IN IF select # 0 THEN selects[select].selected ELSE xccdf_item_get_selected(item)

\* a faulty setItemSelected, which adds the select to the profile only
SetItemSelected_profileOnly(w, xccdfItem, selected) ==
    LET newSelect == [item |-> xccdfItem, selected |-> selected]
    IN Do([w EXCEPT !.profileSelects = Append(@, newSelect)],
          LAMBDA w1 :
              IF getXccdfItemInternalSelected(w1.policySelects, xccdfItem) # selected
              THEN [w1 EXCEPT !.failed = TRUE]
              ELSE w1)

setItemSelected(w, xccdfItem, selected) ==
    LET newSelect == [item |-> xccdfItem, selected |-> selected]
    IN Do([w EXCEPT !.profileSelects = Append(@, newSelect),
                    !.policySelects = Append(@, newSelect)],
          LAMBDA w1 :
              IF getXccdfItemInternalSelected(w1.policySelects, xccdfItem) # selected
              THEN [w1 EXCEPT !.failed = TRUE]
              ELSE w1)

\* ------------------------------------------------------- tree synchroniser
RECURSIVE synchronizeTreeItem(_, _, _, _)
RECURSIVE pruneLoop(_, _, _, _, _)
RECURSIVE insertLoop(_, _, _, _, _)

\* lines 660-674: i walks the child list while children are deleted from it
pruneLoop(w, n, itemsToAdd, i, existingItemsMap) ==
    IF i > Len(w.tree[n].children) THEN [w |-> w, map |-> existingItemsMap]
    ELSE LET childTreeItem == w.tree[n].children[i]
             childXccdfItem == getXccdfItemFromTreeItem(w, childTreeItem)
         IN IF childXccdfItem \notin Range(itemsToAdd)
            THEN pruneLoop(deleteTreeItem(w, childTreeItem), n, itemsToAdd, i + 1,
                           existingItemsMap)
            ELSE pruneLoop(w, n, itemsToAdd, i + 1,
                           [existingItemsMap EXCEPT ![childXccdfItem] = childTreeItem])

\* lines 676-701: k = idx + 1
insertLoop(w, n, itemsToAdd, k, existingItemsMap) ==
    IF k > Len(itemsToAdd) THEN w
    ELSE LET childXccdfItem == itemsToAdd[k]
         IN IF existingItemsMap[childXccdfItem] = 0
            THEN LET childTreeItem == Len(w.tree) + 1
                 IN insertLoop(
                        synchronizeTreeItem(
                            insertChild([w EXCEPT !.tree = Append(@, NewTreeWidgetItem)],
                                        n, k - 1, childTreeItem),
                            childTreeItem, childXccdfItem, TRUE),
                        n, itemsToAdd, k + 1, existingItemsMap)
            ELSE insertLoop(synchronizeTreeItem(w, existingItemsMap[childXccdfItem],
                                                childXccdfItem, TRUE),
                            n, itemsToAdd, k + 1, existingItemsMap)

\* lines 595-611: the checkable flag, the check state, the children's enabled state
synchronizeCheckState(w, treeItem, xccdfItem) ==
    LET xccdfItemType == xccdf_item_get_type(xccdfItem)
    IN IF xccdfItemType \in {XCCDF_RULE, XCCDF_GROUP}
       THEN Do(Do(setFlags(w, treeItem, w.tree[treeItem].enabled, TRUE),
                  LAMBDA a : setCheckState(a, treeItem,
                                 getXccdfItemInternalSelected(a.policySelects, xccdfItem))),
               LAMBDA b : syncXCCDFItemChildrenDisabledState(b, treeItem,
                                                             b.tree[treeItem].checked))
       ELSE IF xccdfItemType = XCCDF_VALUE
       THEN setFlags(w, treeItem, w.tree[treeItem].enabled, FALSE)
       ELSE w

\* lines 613-702: the children of the node
synchronizeChildren(w, treeItem, xccdfItem) ==
    LET xccdfItemType == xccdf_item_get_type(xccdfItem)
        itemsToAdd == IF xccdfItemType \in {XCCDF_GROUP, XCCDF_BENCHMARK}
                      THEN xccdf_get_values(xccdfItem) \o xccdf_get_content(xccdfItem)
                      ELSE <<>>
    IN Do(pruneLoop(w, treeItem, itemsToAdd, 1, [x \in AllItems \cup {NoItem} |-> 0]),
          LAMBDA pruned : insertLoop(pruned.w, treeItem, itemsToAdd, 1, pruned.map))

synchronizeTreeItem(w, treeItem, xccdfItem, recursive) ==
    Do(Do(Do(setData([w EXCEPT !.lock = @ + 1], treeItem, xccdfItem),
             LAMBDA w1 : synchronizeCheckState(w1, treeItem, xccdfItem)),
          LAMBDA w2 : IF recursive THEN synchronizeChildren(w2, treeItem, xccdfItem) ELSE w2),
       LAMBDA w3 : [w3 EXCEPT !.lock = @ - 1])

\* ----------------------------------------------------- value override store
\* xccdf_policy_get_value_of_item: the profile's setvalue for the item, the one
\* added last, else the Value's own default
getCurrentValueValue(w, xccdfValue) ==
    LET hits == {k \in DOMAIN w.setvalues : w.setvalues[k].item = xccdfValue}
    IN IF hits = {} THEN xccdf_value_default(xccdfValue)
       ELSE w.setvalues[CHOOSE k \in hits : \A j \in hits : j <= k].value

\* a faulty write of a value, which gives the other Value the same value
SetValueValue_otherToo(w, xccdfValue, newValue) ==
    LET other == CHOOSE v \in ValueItems : v # xccdfValue
    IN [w EXCEPT !.setvalues =
            Append(Append(@, [item |-> other, value |-> newValue]),
                   [item |-> xccdfValue, value |-> newValue])]

setValueValue(w, xccdfValue, newValue) ==
    Do([w EXCEPT !.setvalues = Append(@, [item |-> xccdfValue, value |-> newValue])],
       LAMBDA w1 : IF getCurrentValueValue(w1, xccdfValue) # newValue
                   THEN [w1 EXCEPT !.failed = TRUE]
                   ELSE w1)

\* ------------------------------------------------ profile title, description
\* oscapTextIteratorGetPreferred (APIHelpers): the text of the entry in the
\* default language, else of the first entry, else the empty string
oscapTextIteratorGetPreferred(texts) ==
    LET hits == {k \in DOMAIN texts : texts[k].lang = OSCAP_LANG_DEFAULT}
    IN IF texts = <<>> THEN ""
       ELSE IF hits = {} THEN texts[1].text
       ELSE texts[CHOOSE k \in hits : \A j \in hits : k <= j].text

\* lines 741-747 and 777-783: the entry an edit writes to; 0 when there is none
RECURSIVE editableTextLoop(_, _, _)
editableTextLoop(texts, k, titleText) ==
    IF k > Len(texts) THEN titleText
    ELSE IF titleText = 0 \/ texts[k].lang = OSCAP_LANG_DEFAULT
         THEN editableTextLoop(texts, k + 1, k)
         ELSE editableTextLoop(texts, k + 1, titleText)

\* a faulty choice of the entry to write, which always takes the first one
EditableText_first(texts) == IF texts = <<>> THEN 0 ELSE 1

editableText(texts) == editableTextLoop(texts, 1, 0)

getProfileTitle(w) == oscapTextIteratorGetPreferred(w.titles)

getProfileDescription(w) == oscapTextIteratorGetPreferred(w.descriptions)

setProfileTitle(w, title) ==
    LET titleText == editableText(w.titles)
    IN IF titleText = 0 THEN [w EXCEPT !.failed = TRUE]
       ELSE Do([w EXCEPT !.titles[titleText] =
                             [lang |-> OSCAP_LANG_DEFAULT, text |-> title]],
               LAMBDA w1 : IF getProfileTitle(w1) # title
                           THEN [w1 EXCEPT !.failed = TRUE] ELSE w1)

setProfileDescription(w, description) ==
    LET descText == editableText(w.descriptions)
    IN IF descText = 0 THEN [w EXCEPT !.failed = TRUE]
       ELSE Do([w EXCEPT !.descriptions[descText] =
                             [lang |-> OSCAP_LANG_DEFAULT, text |-> description]],
               LAMBDA w1 : IF getProfileDescription(w1) # description
                           THEN [w1 EXCEPT !.failed = TRUE] ELSE w1)

\* ------------------------------------------------------------ the panels
\* QLineEdit::setText / QTextEdit::setPlainText: a changed text emits textChanged
setTitleText(w, text) ==
    IF w.profilePanel.title = text THEN w
    ELSE emit([w EXCEPT !.profilePanel.title = text], "title.textChanged", text)

setDescriptionText(w, text) ==
    IF w.profilePanel.description = text THEN w
    ELSE emit([w EXCEPT !.profilePanel.description = text], "description.textChanged", text)

\* QComboBox: a changed edit text emits editTextChanged
setEditText(w, text) ==
    IF w.itemPanel.valueComboBox = text THEN w
    ELSE emit([w EXCEPT !.itemPanel.valueComboBox = text], "editTextChanged", text)


\* a faulty refresh of the title field, which does not raise mRefreshInProgress
RefreshTitleField_unguarded(w) ==
    IF w.profilePanel.title # getProfileTitle(w)
    THEN setTitleText(w, getProfileTitle(w))
    ELSE w

\* lines 66-72
refreshTitleField(w) ==
    IF w.profilePanel.title # getProfileTitle(w)
    THEN Do(setTitleText([w EXCEPT !.profilePanel.mRefreshInProgress = TRUE],
                         getProfileTitle(w)),
            LAMBDA b : [b EXCEPT !.profilePanel.mRefreshInProgress = FALSE])
    ELSE w

\* lines 74-80
refreshDescriptionField(w) ==
    IF w.profilePanel.description # getProfileDescription(w)
    THEN Do(setDescriptionText([w EXCEPT !.profilePanel.mRefreshInProgress = TRUE],
                               getProfileDescription(w)),
            LAMBDA b : [b EXCEPT !.profilePanel.mRefreshInProgress = FALSE])
    ELSE w

\* a faulty refresh of the profile panel, which leaves the description field alone
Refresh_titleOnly(w) == refreshTitleField(w)

ProfilePropertiesDockWidget_refresh(w) == Do(refreshTitleField(w), refreshDescriptionField)

\* lines 169-209: the value box of a Value item; addItem of the first instance
\* shows it, then setEditText shows the current value
refreshValueBox(w) ==
    LET item == w.itemPanel.mXccdfItem
    IN IF item # NoItem /\ xccdf_item_get_type(item) = XCCDF_VALUE
       THEN Do(setEditText(w, xccdf_value_default(item)),
               LAMBDA b : setEditText(b, getCurrentValueValue(b, item)))
       ELSE w

XCCDFItemPropertiesDockWidget_refresh(w) ==
    IF w.itemPanel.mRefreshInProgress THEN w
    ELSE Do(Do(setEditText([w EXCEPT !.itemPanel.mRefreshInProgress = TRUE], ""),
               refreshValueBox),
            LAMBDA c : [c EXCEPT !.itemPanel.mRefreshInProgress = FALSE])

refreshProfileDockWidget(w) == ProfilePropertiesDockWidget_refresh(w)

refreshXccdfItemPropertiesDockWidget(w) == XCCDFItemPropertiesDockWidget_refresh(w)

setXccdfItem(w, item) ==
    XCCDFItemPropertiesDockWidget_refresh([w EXCEPT !.itemPanel.mXccdfItem = item])

\* ---------------------------------------------------------- undo commands
SelectId == 1
TitleId == 2
DescriptionId == 3
ValueId == 4

XCCDFItemSelectUndoCommand(treeItem, newSelect) ==
    [id |-> SelectId, node |-> treeItem, value |-> NoItem, newSelect |-> newSelect,
     old |-> "", new |-> ""]

ProfileTitleChangeUndoCommand(oldTitle, newTitle) ==
    [id |-> TitleId, node |-> 0, value |-> NoItem, newSelect |-> FALSE,
     old |-> oldTitle, new |-> newTitle]

ProfileDescriptionChangeUndoCommand(oldDesc, newDesc) ==
    [id |-> DescriptionId, node |-> 0, value |-> NoItem, newSelect |-> FALSE,
     old |-> oldDesc, new |-> newDesc]

XCCDFValueChangeUndoCommand(xccdfValue, newValue, oldValue) ==
    [id |-> ValueId, node |-> 0, value |-> xccdfValue, newSelect |-> FALSE,
     old |-> oldValue, new |-> newValue]

XCCDFItemSelectUndoCommand_redo(w, c) ==
    LET xccdfItem == getXccdfItemFromTreeItem(w, c.node)
    IN Then(setItemSelected(w, xccdfItem, c.newSelect),
            LAMBDA x : synchronizeTreeItem(x, c.node, xccdfItem, FALSE))


\* a faulty undo(), which selects what redo() selects
Undo_repeatsRedo(w, c) ==
    LET xccdfItem == getXccdfItemFromTreeItem(w, c.node)
    IN Then(setItemSelected(w, xccdfItem, c.newSelect),
            LAMBDA x : synchronizeTreeItem(x, c.node, xccdfItem, FALSE))

\* a faulty undo(), which does not synchronise the tree item
Undo_leavesTree(w, c) ==
    setItemSelected(w, getXccdfItemFromTreeItem(w, c.node), ~c.newSelect)

XCCDFItemSelectUndoCommand_undo(w, c) ==
    LET xccdfItem == getXccdfItemFromTreeItem(w, c.node)
    IN Then(setItemSelected(w, xccdfItem, ~c.newSelect),
            LAMBDA x : synchronizeTreeItem(x, c.node, xccdfItem, FALSE))

ProfileTitleChangeUndoCommand_redo(w, c) ==
    Then(setProfileTitle(w, c.new), refreshProfileDockWidget)

ProfileTitleChangeUndoCommand_undo(w, c) ==
    Then(setProfileTitle(w, c.old), refreshProfileDockWidget)

ProfileDescriptionChangeUndoCommand_redo(w, c) ==
    Then(setProfileDescription(w, c.new), refreshProfileDockWidget)

ProfileDescriptionChangeUndoCommand_undo(w, c) ==
    Then(setProfileDescription(w, c.old), refreshProfileDockWidget)

XCCDFValueChangeUndoCommand_redo(w, c) ==
    Then(setValueValue(w, c.value, c.new), refreshXccdfItemPropertiesDockWidget)

\* a faulty undo(), which takes the last setvalue away instead of adding one
ValueUndo_removesOverride(w, c) ==
    refreshXccdfItemPropertiesDockWidget(
        [w EXCEPT !.setvalues = SubSeq(@, 1, Len(@) - 1)])

XCCDFValueChangeUndoCommand_undo(w, c) ==
    Then(setValueValue(w, c.value, c.old), refreshXccdfItemPropertiesDockWidget)

\* QUndoCommand::redo / undo, dispatched on the command's class
redo(w, c) ==
    CASE c.id = SelectId -> XCCDFItemSelectUndoCommand_redo(w, c)
      [] c.id = TitleId -> ProfileTitleChangeUndoCommand_redo(w, c)
      [] c.id = DescriptionId -> ProfileDescriptionChangeUndoCommand_redo(w, c)
      [] c.id = ValueId -> XCCDFValueChangeUndoCommand_redo(w, c)

undo(w, c) ==
    CASE c.id = SelectId -> XCCDFItemSelectUndoCommand_undo(w, c)
      [] c.id = TitleId -> ProfileTitleChangeUndoCommand_undo(w, c)
      [] c.id = DescriptionId -> ProfileDescriptionChangeUndoCommand_undo(w, c)
      [] c.id = ValueId -> XCCDFValueChangeUndoCommand_undo(w, c)

\* mergeWith: whether this command absorbs other, and this command afterwards.
\* XCCDFItemSelectUndoCommand keeps QUndoCommand's mergeWith, which refuses.
\* a faulty mergeWith(), which refuses every command
MergeWith_refuses(this, other) == [ok |-> FALSE, cmd |-> this]

ProfileTitleChangeUndoCommand_mergeWith(this, other) ==
    IF other.id # TitleId THEN [ok |-> FALSE, cmd |-> this]
    ELSE [ok |-> TRUE, cmd |-> [this EXCEPT !.new = other.new]]

ProfileDescriptionChangeUndoCommand_mergeWith(this, other) ==
    IF other.id # DescriptionId THEN [ok |-> FALSE, cmd |-> this]
    ELSE [ok |-> TRUE, cmd |-> [this EXCEPT !.new = other.new]]


\* a faulty mergeWith(), which also takes over the other command's old value
MergeWith_takesOldValue(this, other) ==
    IF other.id # ValueId THEN [ok |-> FALSE, cmd |-> this]
    ELSE IF other.value # this.value THEN [ok |-> FALSE, cmd |-> this]
    ELSE [ok |-> TRUE, cmd |-> [this EXCEPT !.new = other.new, !.old = other.old]]

\* a faulty mergeWith(), which does not compare the two commands' items
MergeWith_anyItem(this, other) ==
    IF other.id # ValueId THEN [ok |-> FALSE, cmd |-> this]
    ELSE [ok |-> TRUE, cmd |-> [this EXCEPT !.new = other.new]]

XCCDFValueChangeUndoCommand_mergeWith(this, other) ==
    IF other.id # ValueId THEN [ok |-> FALSE, cmd |-> this]
    ELSE IF other.value # this.value THEN [ok |-> FALSE, cmd |-> this]
    ELSE [ok |-> TRUE, cmd |-> [this EXCEPT !.new = other.new]]

mergeWith(this, other) ==
    CASE this.id = TitleId -> ProfileTitleChangeUndoCommand_mergeWith(this, other)
      [] this.id = DescriptionId -> ProfileDescriptionChangeUndoCommand_mergeWith(this, other)
      [] this.id = ValueId -> XCCDFValueChangeUndoCommand_mergeWith(this, other)
      [] OTHER -> [ok |-> FALSE, cmd |-> this]


\* a faulty push, which keeps the undone commands
PushCommand_keepsUndone(w1, cmd) ==
    LET try_merge == w1.index > 0 /\ w1.command_list[w1.index].id = cmd.id
        merged == IF try_merge THEN mergeWith(w1.command_list[w1.index], cmd)
                  ELSE [ok |-> FALSE, cmd |-> cmd]
    IN IF merged.ok
       THEN [w1 EXCEPT !.command_list[w1.index] = merged.cmd]
       ELSE [w1 EXCEPT !.command_list = SubSeq(@, 1, w1.index) \o <<cmd>>
                                            \o SubSeq(@, w1.index + 1, Len(@)),
                       !.index = @ + 1]

\* --------------------------------------------------------- QUndoStack (Qt)
\* QUndoStack::push: redo the command, drop the undone commands, then merge
\* the command into the one at the current position or append it
pushCommand(w1, cmd) ==
    LET kept == SubSeq(w1.command_list, 1, w1.index)
        try_merge == w1.index > 0 /\ kept[w1.index].id = cmd.id
        merged == IF try_merge THEN mergeWith(kept[w1.index], cmd)
                  ELSE [ok |-> FALSE, cmd |-> cmd]
    IN IF merged.ok
       THEN [w1 EXCEPT !.command_list = [kept EXCEPT ![w1.index] = merged.cmd]]
       ELSE [w1 EXCEPT !.command_list = Append(kept, cmd), !.index = @ + 1]

\* a faulty push, which records the command although its redo() threw
Push_recordsFailed(w, cmd) == pushCommand(redo(w, cmd), cmd)

\* a faulty push, which does not run redo() of a command it merges
Push_skipsRedoOnMerge(w, cmd) ==
    IF w.index > 0 /\ w.command_list[w.index].id = cmd.id
          /\ mergeWith(w.command_list[w.index], cmd).ok
    THEN pushCommand(w, cmd)
    ELSE Then(redo(w, cmd), LAMBDA w1 : pushCommand(w1, cmd))

push(w, cmd) == Then(redo(w, cmd), LAMBDA w1 : pushCommand(w1, cmd))

\* QUndoStack::undo / redo
QUndoStack_undo(w) ==
    IF w.index = 0 THEN w
    ELSE Then(undo(w, w.command_list[w.index]), LAMBDA x : [x EXCEPT !.index = w.index - 1])

QUndoStack_redo(w) ==
    IF w.index = Len(w.command_list) THEN w
    ELSE Then(redo(w, w.command_list[w.index + 1]), LAMBDA x : [x EXCEPT !.index = w.index + 1])


\* a faulty setIndex, which undoes one command only
SetIndex_undoesOne(w, idx) == IF w.index <= idx THEN w ELSE QUndoStack_undo(w)

\* QUndoStack::setIndex(idx) for idx below the current position
RECURSIVE QUndoStack_setIndex(_, _)
QUndoStack_setIndex(w, idx) ==
    IF w.failed \/ w.index <= idx THEN w
    ELSE QUndoStack_setIndex(QUndoStack_undo(w), idx)

\* ------------------------------------------------------ change handlers
setValueValueWithUndoCommand(w, xccdfValue, newValue) ==
    push(w, XCCDFValueChangeUndoCommand(xccdfValue, newValue,
                                        getCurrentValueValue(w, xccdfValue)))

setProfileTitleWithUndoCommand(w, newTitle) ==
    push(w, ProfileTitleChangeUndoCommand(getProfileTitle(w), newTitle))

setProfileDescriptionWithUndoCommand(w, newDescription) ==
    push(w, ProfileDescriptionChangeUndoCommand(getProfileDescription(w), newDescription))

profileTitleChanged(w, newTitle) ==
    IF w.profilePanel.mRefreshInProgress THEN w
    ELSE setProfileTitleWithUndoCommand(w, newTitle)

profileDescriptionChanged(w, newDescription) ==
    IF w.profilePanel.mRefreshInProgress THEN w
    ELSE setProfileDescriptionWithUndoCommand(w, newDescription)

valueChanged(w, newValue) ==
    IF w.itemPanel.mRefreshInProgress THEN w
    ELSE setValueValueWithUndoCommand(w, w.itemPanel.mXccdfItem, newValue)

itemSelectionChanged(w, current) ==
    setXccdfItem(w, getXccdfItemFromTreeItem(w, current))

\* a faulty itemChanged, which does not look at the synchronize counter
ItemChanged_unlocked(w, treeItem) ==
    LET checkState == w.tree[treeItem].checked
        xccdfItem == getXccdfItemFromTreeItem(w, treeItem)
    IN IF xccdfItem = NoItem THEN w
       ELSE IF xccdf_item_get_type(xccdfItem) = XCCDF_VALUE THEN w
       ELSE LET itemCheckState == getXccdfItemInternalSelected(w.policySelects, xccdfItem)
            IN Then(IF checkState # itemCheckState
                    THEN push(w, XCCDFItemSelectUndoCommand(treeItem, checkState))
                    ELSE w,
                    LAMBDA x : syncXCCDFItemChildrenDisabledState(x, treeItem, checkState))

\* a faulty itemChanged, which writes the selection itself instead of pushing
\* a command
ItemChanged_writesDirectly(w, treeItem) ==
    IF w.lock > 0 THEN w
    ELSE LET checkState == w.tree[treeItem].checked
             xccdfItem == getXccdfItemFromTreeItem(w, treeItem)
         IN IF xccdfItem = NoItem THEN w
            ELSE IF xccdf_item_get_type(xccdfItem) = XCCDF_VALUE THEN w
            ELSE LET itemCheckState == getXccdfItemInternalSelected(w.policySelects, xccdfItem)
                 IN Then(IF checkState # itemCheckState
                         THEN setItemSelected(w, xccdfItem, checkState)
                         ELSE w,
                         LAMBDA x : syncXCCDFItemChildrenDisabledState(x, treeItem, checkState))

itemChanged(w, treeItem) ==
    IF w.lock > 0 THEN w
    ELSE LET checkState == w.tree[treeItem].checked
             xccdfItem == getXccdfItemFromTreeItem(w, treeItem)
         IN IF xccdfItem = NoItem THEN w
            ELSE IF xccdf_item_get_type(xccdfItem) = XCCDF_VALUE THEN w
            ELSE LET itemCheckState == getXccdfItemInternalSelected(w.policySelects, xccdfItem)
                 IN Then(IF checkState # itemCheckState
                         THEN push(w, XCCDFItemSelectUndoCommand(treeItem, checkState))
                         ELSE w,
                         LAMBDA x : syncXCCDFItemChildrenDisabledState(x, treeItem, checkState))

\* the direct connections of the two panels and of the items tree
emit(w, signal, arg) ==
    CASE signal = "itemChanged" -> itemChanged(w, arg)
      [] signal = "title.textChanged" -> profileTitleChanged(w, arg)
      [] signal = "description.textChanged" -> profileDescriptionChanged(w, arg)
      [] signal = "editTextChanged" -> valueChanged(w, arg)


\* a faulty closeEvent, which notifies the host before it resets the history
CloseEvent_notifiesFirst(w, answer) ==
    IF ~w.mChangesConfirmed /\ answer = "No" THEN w
    ELSE Then([w EXCEPT !.notified =
                            IF w.mParentMainWindow
                            THEN Append(@, [newProfile |-> w.mNewProfile,
                                            changesConfirmed |-> w.mChangesConfirmed,
                                            index |-> w.index])
                            ELSE @],
              LAMBDA x : [(IF ~x.mChangesConfirmed THEN QUndoStack_setIndex(x, 0) ELSE x)
                             EXCEPT !.closed = TRUE])

\* ------------------------------------------------------------ closing
\* QWidget::close() delivers the close event; answer is the user's reply to the
\* "Discard changes?" question, asked only when the changes are not confirmed
closeEvent(w, answer) ==
    IF ~w.mChangesConfirmed /\ answer = "No" THEN w
    ELSE Then(IF ~w.mChangesConfirmed THEN QUndoStack_setIndex(w, 0) ELSE w,
              LAMBDA x :
                [x EXCEPT !.closed = TRUE,
                          !.notified =
                              IF x.mParentMainWindow
                              THEN Append(@, [newProfile |-> x.mNewProfile,
                                              changesConfirmed |-> x.mChangesConfirmed,
                                              index |-> x.index])
                              ELSE @])

confirmAndClose(w, answer) == closeEvent([w EXCEPT !.mChangesConfirmed = TRUE], answer)

deleteProfileAndDiscard(w, answer) ==
    closeEvent([w EXCEPT !.mChangesConfirmed = FALSE, !.mNewProfile = TRUE], answer)

\* ------------------------------------------------------------ construction
\* What a session can be opened on: the selects the profile already holds, and
\* the profile's title and description texts.
\* how deep in the document the item lies: 0 for the benchmark
DocumentDepth(i) ==
    CASE i = "B" -> 0
      [] i \in {"V1", "V2", "G1"} -> 1
      [] i = "G2" -> 2
      [] i = "G3" -> 3
      [] OTHER -> 4

InitialSelects ==
    {<<>>, <<[item |-> "R", selected |-> FALSE]>>, <<[item |-> "G2", selected |-> FALSE]>>}

DefaultTitle == <<[lang |-> OSCAP_LANG_DEFAULT, text |-> "t0"]>>
DefaultDescription == <<[lang |-> OSCAP_LANG_DEFAULT, text |-> "d0"]>>

InitialTitles ==
    {DefaultTitle,
     <<[lang |-> "fr", text |-> "t1"], [lang |-> OSCAP_LANG_DEFAULT, text |-> "t0"]>>,
     <<[lang |-> "fr", text |-> "t0"]>>}

\* The items of the display children a node may have before it is
\* synchronised, some of them no longer listed by the document.
PreItems == {"V1", "V2", "G1"} \cup StaleItems

\* where the document lists child among the children of item; 0 if nowhere
DocumentPosition(item, child) ==
    LET itemsToAdd == xccdf_get_values(item) \o xccdf_get_content(item)
        hits == {k \in DOMAIN itemsToAdd : itemsToAdd[k] = child}
    IN IF hits = {} THEN 0 ELSE CHOOSE k \in hits : TRUE

IsValue(i) == xccdf_item_get_type(i) = XCCDF_VALUE

\* The lists an earlier synchronise of the root can have left: one node per
\* item, Values first, and the items the document still lists in its order.
PreChildren ==
    {s \in UNION {[1..k -> PreItems] : k \in 0..MaxPre} :
        \A a, b \in DOMAIN s :
            a < b =>
                /\ s[a] # s[b]
                /\ ~(~IsValue(s[a]) /\ IsValue(s[b]))
                /\ (DocumentPosition("B", s[a]) > 0 /\ DocumentPosition("B", s[b]) > 0)
                      => DocumentPosition("B", s[a]) < DocumentPosition("B", s[b])}

NoCmd == [id |-> 0, node |-> 0, value |-> NoItem, newSelect |-> FALSE, old |-> "", new |-> ""]

\* The record of an operation: the command pushed, whether the push was merged
\* into the entry at the current position, whether it directly followed a push
\* of a command of the same kind and target, how many undone entries it
\* discarded, and the user's answer to a prompt.
Op(name, cmd, merged, run, dropped, answer) ==
    [op |-> name, cmd |-> cmd, merged |-> merged, run |-> run, dropped |-> dropped,
     answer |-> answer]

Did(name) == Op(name, NoCmd, FALSE, FALSE, 0, "")

NoTrip == [base |-> <<>>, pushes |-> 0, undos |-> 0, start |-> 0, merged |-> FALSE]

SelectableItems ==
    {i \in BenchmarkItems : xccdf_item_get_type(i) \in {XCCDF_GROUP, XCCDF_RULE}}

\* What the accessors return: every item's effective selection, every value
\* item's effective value, the profile title and the profile description.
EffectiveState(w) ==
    [selected |-> [i \in SelectableItems |->
                      getXccdfItemInternalSelected(w.policySelects, i)],
     value |-> [v \in ValueItems |-> getCurrentValueValue(w, v)],
     title |-> getProfileTitle(w),
     description |-> getProfileDescription(w)]

\* the members the constructor's initialiser list sets, and an empty tree
Members(selects, titleTexts, descTexts, newProfile, parent) ==
    [tree |-> <<NewTreeWidgetItem>>, lock |-> 0,
     profileSelects |-> selects, policySelects |-> selects,
     setvalues |-> <<>>, titles |-> titleTexts, descriptions |-> descTexts,
     command_list |-> <<>>, index |-> 0,
     profilePanel |-> [title |-> "", description |-> "", mRefreshInProgress |-> FALSE],
     itemPanel |-> [mXccdfItem |-> NoItem, valueComboBox |-> "",
                    mRefreshInProgress |-> FALSE],
     mNewProfile |-> newProfile, mChangesConfirmed |-> FALSE,
     mParentMainWindow |-> parent, closed |-> FALSE,
     notified |-> <<>>, failed |-> FALSE]

\* TailoringWindow::TailoringWindow, after the three sanity checks
TailoringWindow(selects, titleTexts, descTexts, newProfile, parent) ==
    ProfilePropertiesDockWidget_refresh(
        XCCDFItemPropertiesDockWidget_refresh(
            refreshXCCDFItemChildrenDisabledState(
                synchronizeTreeItem(
                    Members(selects, titleTexts, descTexts, newProfile, parent),
                    RootNode, "B", TRUE),
                RootNode, TRUE)))

\* a display node as an earlier synchronise left it
SynchronizedNode(item, parent) ==
    [NewTreeWidgetItem EXCEPT
        !.item = item, !.parent = parent,
        !.checkable = xccdf_item_get_type(item) \in {XCCDF_GROUP, XCCDF_RULE},
        !.checked = xccdf_item_get_type(item) \in {XCCDF_GROUP, XCCDF_RULE}]

\* a window whose root node holds display children for the items of pre
WithChildren(pre) ==
    [Members(<<>>, DefaultTitle, DefaultDescription, FALSE, TRUE) EXCEPT
        !.tree = <<[NewTreeWidgetItem EXCEPT !.item = "B",
                                             !.children = [k \in DOMAIN pre |-> k + 1]]>>
                 \o [k \in DOMAIN pre |-> SynchronizedNode(pre[k], RootNode)]]

PhaseOf(w) == IF w.failed THEN "failed" ELSE IF w.closed THEN "closed" ELSE "open"

\* the state the constructor leaves behind
Constructed(w) ==
    /\ tree = w.tree
    /\ mSynchronizeItemLock = w.lock
    /\ profileSelects = w.profileSelects
    /\ policySelects = w.policySelects
    /\ setvalues = w.setvalues
    /\ titles = w.titles
    /\ descriptions = w.descriptions
    /\ command_list = w.command_list
    /\ index = w.index
    /\ profilePanel = w.profilePanel
    /\ itemPanel = w.itemPanel
    /\ mNewProfile = w.mNewProfile
    /\ mChangesConfirmed = w.mChangesConfirmed
    /\ mParentMainWindow = w.mParentMainWindow
    /\ phase = PhaseOf(w)
    /\ notified = w.notified
    /\ opened = w
    /\ lastOp = Did("open")
    /\ trip = NoTrip

\* a session opened on one of the given profiles, with the given arguments
InitOn(S, T, D, NP, P) ==
    \E selects \in S, titleTexts \in T, descTexts \in D, newProfile \in NP, parent \in P :
        Constructed(TailoringWindow(selects, titleTexts, descTexts, newProfile, parent))

Init == InitOn({<<>>}, {DefaultTitle}, {DefaultDescription}, {FALSE}, {TRUE})

\* the run of pushes and the undos after it, once op has been performed
TripAfter(op) ==
    CASE op.op = "push" ->
            IF lastOp.op = "push" /\ trip.pushes > 0 /\ trip.pushes < MaxTrip
            THEN [trip EXCEPT !.pushes = @ + 1, !.merged = @ \/ op.merged]
            ELSE [base |-> EffectiveState(World), pushes |-> 1, undos |-> 0,
                  start |-> index, merged |-> op.merged]
      [] op.op = "undo" ->
            IF lastOp.op \in {"push", "undo"} /\ trip.undos < trip.pushes
            THEN [trip EXCEPT !.undos = @ + 1]
            ELSE NoTrip
      [] OTHER -> NoTrip

\* the state a handler leaves behind
Apply(w, op) ==
    /\ tree' = w.tree
    /\ mSynchronizeItemLock' = w.lock
    /\ profileSelects' = w.profileSelects
    /\ policySelects' = w.policySelects
    /\ setvalues' = w.setvalues
    /\ titles' = w.titles
    /\ descriptions' = w.descriptions
    /\ command_list' = w.command_list
    /\ index' = w.index
    /\ profilePanel' = w.profilePanel
    /\ itemPanel' = w.itemPanel
    /\ mNewProfile' = w.mNewProfile
    /\ mChangesConfirmed' = w.mChangesConfirmed
    /\ mParentMainWindow' = w.mParentMainWindow
    /\ phase' = PhaseOf(w)
    /\ notified' = w.notified
    /\ opened' = opened
    /\ lastOp' = op
    /\ trip' = TripAfter(op)

\* the record of a push of cmd that took World to w
PushOp(w, cmd) ==
    Op("push", cmd, ~w.failed /\ w.index = index,
       lastOp.op = "push" /\ lastOp.cmd.id = cmd.id /\ lastOp.cmd.value = cmd.value
           /\ lastOp.cmd.node = cmd.node,
       Len(command_list) - index, "")

ApplyPush(w, cmd) == Apply(w, PushOp(w, cmd))

\* the overrides added to the profile since the session was opened
Overrides ==
    (Len(profileSelects) - Len(opened.profileSelects)) + Len(setvalues)

\* the items the user opens in the item panel
ShownItems == {"V1", "V2"}

Nodes == {n \in DOMAIN tree : tree[n].alive}

\* ------------------------------------------- construction, from its arguments
\* The collaborators a session can be constructed with: "" when all three
\* are given, else which of them is NULL.
Collaborators == {"", "policy", "profile", "benchmark", "policy and benchmark"}

\* What a call of xccdf_policy_get_profile(NULL) in the initialiser list can
\* do: read through the null pointer and end the process, or return something.
NullReads == {"crashes", "returns"}

\* no window: the constructor threw, and its members were destroyed
NoWindow ==
    [Members(<<>>, <<>>, <<>>, FALSE, FALSE) EXCEPT !.tree = <<>>, !.failed = TRUE]

\* TailoringWindow::TailoringWindow with its sanity checks (lines 444-456);
\* mProfile is read from the policy (line 437) before the policy is checked
Construct(given, nullRead, selects, titleTexts, descTexts, newProfile, parent) ==
    IF given \in {"policy", "policy and benchmark"} /\ nullRead = "crashes"
    THEN [w |-> NoWindow, phase |-> "crashed"]
    ELSE IF given # ""
    THEN [w |-> NoWindow, phase |-> "failed"]
    ELSE [w |-> TailoringWindow(selects, titleTexts, descTexts, newProfile, parent),
          phase |-> "open"]

\* the state an attempt to construct a session leaves behind
Attempted(c, given) ==
    /\ tree = c.w.tree
    /\ mSynchronizeItemLock = c.w.lock
    /\ profileSelects = c.w.profileSelects
    /\ policySelects = c.w.policySelects
    /\ setvalues = c.w.setvalues
    /\ titles = c.w.titles
    /\ descriptions = c.w.descriptions
    /\ command_list = c.w.command_list
    /\ index = c.w.index
    /\ profilePanel = c.w.profilePanel
    /\ itemPanel = c.w.itemPanel
    /\ mNewProfile = c.w.mNewProfile
    /\ mChangesConfirmed = c.w.mChangesConfirmed
    /\ mParentMainWindow = c.w.mParentMainWindow
    /\ phase = c.phase
    /\ notified = c.w.notified
    /\ opened = c.w
    /\ lastOp = Op("open", NoCmd, FALSE, FALSE, 0, given)
    /\ trip = NoTrip

\* ------------------------------------------------------------ user actions
\* Each takes the longest history and the most overrides it may lead to.

\* The user clicks the check box of an enabled Rule or Group node: Qt flips
\* the check state and emits itemChanged.
UserToggle(n, hist, overrides) ==
    /\ phase = "open"
    /\ n \in Nodes /\ tree[n].checkable /\ tree[n].enabled
    /\ index < hist /\ Overrides < overrides
    /\ ApplyPush(itemChanged([World EXCEPT !.tree[n].checked = ~tree[n].checked], n),
                 XCCDFItemSelectUndoCommand(n, ~tree[n].checked))

\* The user picks another node of the tree.
UserSelectItem(n) ==
    /\ phase = "open"
    /\ n \in Nodes
    /\ tree[n].item \in ShownItems
    /\ tree[n].item # itemPanel.mXccdfItem
    /\ Apply(itemSelectionChanged(World, n), Did("select"))

\* The user types into the value box of the item panel, shown for a Value.
UserEditValue(v, hist, overrides) ==
    /\ phase = "open"
    /\ itemPanel.mXccdfItem \in ValueItems
    /\ v # itemPanel.valueComboBox
    /\ index < hist /\ Overrides < overrides
    /\ ApplyPush(setEditText(World, v),
                 XCCDFValueChangeUndoCommand(itemPanel.mXccdfItem, v,
                     getCurrentValueValue(World, itemPanel.mXccdfItem)))

UserEditTitle(t, hist) ==
    /\ phase = "open"
    /\ t # profilePanel.title
    /\ index < hist
    /\ ApplyPush(setTitleText(World, t),
                 ProfileTitleChangeUndoCommand(getProfileTitle(World), t))

UserEditDescription(d, hist) ==
    /\ phase = "open"
    /\ d # profilePanel.description
    /\ index < hist
    /\ ApplyPush(setDescriptionText(World, d),
                 ProfileDescriptionChangeUndoCommand(getProfileDescription(World), d))

\* whether running (or taking back) the command stays within the overrides
WithinOverrides(c, overrides) ==
    c.id \in {SelectId, ValueId} => Overrides < overrides

Undo(overrides) ==
    /\ phase = "open"
    /\ index > 0
    /\ WithinOverrides(command_list[index], overrides)
    /\ Apply(QUndoStack_undo(World), Did("undo"))

Redo(overrides) ==
    /\ phase = "open"
    /\ index < Len(command_list)
    /\ WithinOverrides(command_list[index + 1], overrides)
    /\ Apply(QUndoStack_redo(World), Did("redo"))

\* a command's redo() or undo() asks the profile panel to refresh; so may anyone
RefreshProfilePanel ==
    /\ phase = "open"
    /\ Apply(refreshProfileDockWidget(World), Did("refreshProfile"))

RefreshItemPanel ==
    /\ phase = "open"
    /\ Apply(refreshXccdfItemPropertiesDockWidget(World), Did("refreshItem"))

Answers == {"Yes", "No"}

\* the button that confirms the changes: no question is asked
ConfirmAndClose ==
    /\ phase = "open"
    /\ Apply(confirmAndClose(World, ""), Did("confirmAndClose"))

\* the cancel button, or the window's close box
Close(answer) ==
    /\ phase = "open"
    /\ Apply(closeEvent(World, answer), Op("close", NoCmd, FALSE, FALSE, 0, answer))

DeleteProfileAndDiscard(answer) ==
    /\ phase = "open"
    /\ Apply(deleteProfileAndDiscard(World, answer),
             Op("deleteProfileAndDiscard", NoCmd, FALSE, FALSE, 0, answer))

\* synchronizeTreeItem(root, benchmark, true), as the constructor calls it
Synchronize ==
    /\ phase = "open"
    /\ lastOp.op = "open"
    /\ Apply(synchronizeTreeItem(World, RootNode, "B", TRUE), Did("synchronize"))

\* ---------------------------------------------------------- specifications
\* Editing: the four kinds of command, undo and redo.
Next ==
    \/ \E n \in DOMAIN tree : UserToggle(n, MaxHist, MaxOverrides)
    \/ \E n \in DOMAIN tree : UserSelectItem(n)
    \/ \E v \in ValueStrings : UserEditValue(v, MaxHist, MaxOverrides)
    \/ \E t \in TitleStrings : UserEditTitle(t, MaxHist)
    \/ \E d \in DescStrings : UserEditDescription(d, MaxHist)
    \/ Undo(MaxOverrides)
    \/ Redo(MaxOverrides)

Spec == Init /\ [][Next]_vars

\* The check boxes of the tree, on profiles that unselect a rule or a group.
InitTree == InitOn(InitialSelects, {DefaultTitle}, {DefaultDescription}, {FALSE}, {TRUE})

NextTree ==
    \/ \E n \in DOMAIN tree : UserToggle(n, TreeHist, TreeOverrides)
    \/ Undo(TreeOverrides)
    \/ Redo(TreeOverrides)

SpecTree == InitTree /\ [][NextTree]_vars

\* The property panels: edits of the fields, undo, redo, and refreshes.
InitPanels == InitOn({<<>>}, InitialTitles, {DefaultDescription}, {FALSE}, {TRUE})

NextPanels ==
    \/ \E n \in DOMAIN tree : UserSelectItem(n)
    \/ \E v \in ValueStrings : UserEditValue(v, CloseHist, CloseOverrides)
    \/ \E t \in TitleStrings : UserEditTitle(t, CloseHist)
    \/ \E d \in DescStrings : UserEditDescription(d, CloseHist)
    \/ Undo(CloseOverrides)
    \/ Redo(CloseOverrides)
    \/ RefreshProfilePanel
    \/ RefreshItemPanel

SpecPanels == InitPanels /\ [][NextPanels]_vars

\* Closing: a few edits, then the three ways to close, with either answer.
InitClose ==
    InitOn({<<>>, <<[item |-> "R", selected |-> FALSE]>>}, {DefaultTitle},
           {DefaultDescription}, BOOLEAN, BOOLEAN)

NextClose ==
    \/ \E n \in DOMAIN tree : UserToggle(n, CloseHist, CloseOverrides)
    \/ \E n \in DOMAIN tree : UserSelectItem(n)
    \/ \E v \in ValueStrings : UserEditValue(v, CloseHist, CloseOverrides)
    \/ \E t \in TitleStrings : UserEditTitle(t, CloseHist)
    \/ \E d \in DescStrings : UserEditDescription(d, CloseHist)
    \/ Undo(CloseOverrides)
    \/ ConfirmAndClose
    \/ \E answer \in Answers : Close(answer)
    \/ \E answer \in Answers : DeleteProfileAndDiscard(answer)

SpecClose == InitClose /\ [][NextClose]_vars

\* The recursive synchronise of a root that already has display children.
InitSync == \E pre \in PreChildren : Constructed(WithChildren(pre))

NextSync == Synchronize

SpecSync == InitSync /\ [][NextSync]_vars

\* Profiles without a title or without a description: edits of the two
\* fields and of a check box, undo and redo.
InitEmpty ==
    InitOn({<<>>}, {<<>>, DefaultTitle}, {<<>>, DefaultDescription}, {FALSE}, {TRUE})

NextEmpty ==
    \/ \E n \in DOMAIN tree : UserToggle(n, CloseHist, CloseOverrides)
    \/ \E t \in TitleStrings : UserEditTitle(t, CloseHist)
    \/ \E d \in DescStrings : UserEditDescription(d, CloseHist)
    \/ Undo(CloseOverrides)
    \/ Redo(CloseOverrides)

SpecEmpty == InitEmpty /\ [][NextEmpty]_vars

\* Construction with any collaborators, and the editing of the sessions that
\* come to exist.
InitNull ==
    \E given \in Collaborators, nullRead \in NullReads, selects \in InitialSelects :
        Attempted(Construct(given, nullRead, selects, DefaultTitle, DefaultDescription,
                            FALSE, TRUE),
                  given)

NextNull ==
    \/ \E n \in DOMAIN tree : UserToggle(n, CloseHist, CloseOverrides)
    \/ \E t \in TitleStrings : UserEditTitle(t, CloseHist)
    \/ Undo(CloseOverrides)
    \/ Redo(CloseOverrides)

SpecNull == InitNull /\ [][NextNull]_vars

\* The initial build, on profiles that unselect any of the groups and the
\* rule, and the check boxes of the tree built.
UnselectedAtOpen ==
    {s \in UNION {[1..k -> {"G1", "G2", "G3", "R"}] : k \in 0..4} :
        \A a, b \in DOMAIN s : a < b => DocumentDepth(s[a]) < DocumentDepth(s[b])}

InitBuild ==
    InitOn({[k \in DOMAIN s |-> [item |-> s[k], selected |-> FALSE]] : s \in UnselectedAtOpen},
           {DefaultTitle}, {DefaultDescription}, {FALSE}, {TRUE})

NextBuild ==
    \/ \E n \in DOMAIN tree : UserToggle(n, MaxHist, MaxOverrides)
    \/ Undo(MaxOverrides)
    \/ Redo(MaxOverrides)

SpecBuild == InitBuild /\ [][NextBuild]_vars

\* ------------------------------------------------------------------ claims
\* A run of pushes has been followed by as many undos, or by undos down to
\* position 0, where further undo() calls do nothing.
TripDone ==
    /\ trip.pushes > 0
    /\ lastOp.op = "undo"
    /\ (trip.undos = trip.pushes \/ index = 0)

\* C1 (as stated): from any state, after N pushes and then N undos the
\* selections, values, title and description are those before the pushes.
C1_RoundTripFromAnyState == TripDone => EffectiveState(World) = trip.base

\* C1: N pushes followed by N undos restore the selections, values, title
\* and description that held before the pushes, when the pushes start at
\* history position 0 or none of them is merged into an existing entry.
C1_RoundTrip ==
    (TripDone /\ (trip.start = 0 \/ ~trip.merged))
        => EffectiveState(World) = trip.base

\* two commands of different kinds pushed after an earlier one, both undone
C1_Witness ==
    /\ TripDone
    /\ trip.start > 0 /\ ~trip.merged
    /\ trip.pushes = 2 /\ trip.undos = 2
    /\ command_list[index + 1].id # command_list[index + 2].id
    /\ trip.base # EffectiveState(opened)

\* the select overrides that undoing history entries k .. 1 appends, in order
RECURSIVE UndoneSelects(_)
UndoneSelects(k) ==
    IF k = 0 THEN <<>>
    ELSE (IF command_list[k].id = SelectId
          THEN <<[item |-> tree[command_list[k].node].item,
                  selected |-> ~command_list[k].newSelect]>>
          ELSE <<>>) \o UndoneSelects(k - 1)

\* the setvalue overrides that undoing history entries k .. 1 appends, in order
RECURSIVE UndoneValues(_)
UndoneValues(k) ==
    IF k = 0 THEN <<>>
    ELSE (IF command_list[k].id = ValueId
          THEN <<[item |-> command_list[k].value, value |-> command_list[k].old]>>
          ELSE <<>>) \o UndoneValues(k - 1)

\* C2: when the session is closed unconfirmed and the user accepts the
\* prompt, every applied command is undone, the last one first, the history
\* position is 0, and every item's selection, every value, the title and the
\* description are what they were when the session was opened.
C2_CancelRestores ==
    [][(phase = "open" /\ phase' = "closed" /\ ~mChangesConfirmed')
          => /\ index' = 0
             /\ command_list' = command_list
             /\ profileSelects' = profileSelects \o UndoneSelects(index)
             /\ policySelects' = policySelects \o UndoneSelects(index)
             /\ setvalues' = setvalues \o UndoneValues(index)
             /\ EffectiveState(World)' = EffectiveState(opened)]_vars

\* a session opened with rule R unselected, in which R was selected and
\* another command applied, closed without confirmation
C2_Witness ==
    /\ phase = "closed" /\ ~mChangesConfirmed
    /\ ~getXccdfItemInternalSelected(opened.policySelects, "R")
    /\ \E k \in DOMAIN policySelects : policySelects[k] = [item |-> "R", selected |-> TRUE]
    /\ Len(command_list) = 2
    /\ index = 0

\* C3: a refresh of either panel, alone or inside a command's redo() or
\* undo(), leaves the history as it is: a refresh by itself or on picking an
\* item changes nothing, undo and redo only move the position by one, and a
\* push leaves the history the push alone produces.
C3_RefreshKeepsHistory ==
    [][/\ lastOp'.op \in {"refreshProfile", "refreshItem", "select"}
            => (command_list' = command_list /\ index' = index)
       /\ lastOp'.op = "undo" => (command_list' = command_list /\ index' = index - 1)
       /\ lastOp'.op = "redo" => (command_list' = command_list /\ index' = index + 1)
       /\ lastOp'.op = "push"
            => (command_list' = pushCommand(World, lastOp'.cmd).command_list
                /\ index' = pushCommand(World, lastOp'.cmd).index)]_vars

\* the undo of a title change has just made the refresh rewrite the title field
C3_Witness ==
    /\ lastOp.op = "undo"
    /\ command_list[index + 1].id = TitleId
    /\ command_list[index + 1].old # command_list[index + 1].new
    /\ profilePanel.title = command_list[index + 1].old
    /\ ~profilePanel.mRefreshInProgress

\* C4 (as stated): the entry left by two ValueChange pushes for one item in
\* immediate succession has the first command's old value and the second
\* command's new value.
C4_EntryHasFirstOldValue ==
    [][(lastOp'.op = "push" /\ lastOp'.cmd.id = ValueId /\ lastOp'.run)
          => /\ index' = index
             /\ Len(command_list') = Len(command_list)
             /\ command_list'[index'].old = lastOp.cmd.old
             /\ command_list'[index'].new = lastOp'.cmd.new]_vars

\* C4: the second of two ValueChange pushes for one item in immediate
\* succession adds no entry: it only replaces the new value of the entry the
\* first push left at the top, whose old value stays; and a push that is not
\* merged leaves the pushed command itself at the top.
C4_MergeKeepsOldValue ==
    [][/\ (lastOp'.op = "push" /\ lastOp'.cmd.id = ValueId /\ lastOp'.run)
            => /\ index' = index
               /\ command_list' = [command_list EXCEPT ![index].new = lastOp'.cmd.new]
       /\ (lastOp'.op = "push" /\ ~lastOp'.merged)
            => /\ index' = index + 1
               /\ command_list'[index'] = lastOp'.cmd]_vars

\* two ValueChange pushes for one item in a row, the second with a new value
\* other than the entry's old value
C4_Witness ==
    /\ lastOp.op = "push" /\ lastOp.cmd.id = ValueId /\ lastOp.run /\ lastOp.merged
    /\ command_list[index].old # command_list[index].new
    /\ command_list[index].new = lastOp.cmd.new

\* C5: a push is merged only into an entry of the same kind and, for a
\* ValueChange, of the same value item; a ValueChange for another item than
\* the top entry's, and every SelectToggle, becomes a new entry.
C5_MergeExclusion ==
    [][lastOp'.op = "push"
          => /\ lastOp'.merged
                  => /\ index > 0
                     /\ command_list[index].id = lastOp'.cmd.id
                     /\ lastOp'.cmd.id # SelectId
                     /\ lastOp'.cmd.id = ValueId
                            => command_list[index].value = lastOp'.cmd.value
             /\ (lastOp'.cmd.id = SelectId
                 \/ (lastOp'.cmd.id = ValueId /\ index > 0
                     /\ command_list[index].id = ValueId
                     /\ command_list[index].value # lastOp'.cmd.value))
                  => /\ ~lastOp'.merged
                     /\ index' = index + 1
                     /\ Len(command_list') = index + 1
                     /\ command_list'[index'] = lastOp'.cmd
                     /\ SubSeq(command_list', 1, index) = SubSeq(command_list, 1, index)]_vars

\* a ValueChange for one item on top of a ValueChange for the other, and below
\* them a SelectToggle
C5_Witness ==
    /\ lastOp.op = "push" /\ lastOp.cmd.id = ValueId /\ ~lastOp.merged
    /\ index = 3
    /\ command_list[1].id = SelectId
    /\ command_list[2].id = ValueId
    /\ command_list[2].value # command_list[3].value

\* C7: a push made while some commands are undone discards them: the entries
\* up to the position stay, and the pushed command, or the entry it was
\* merged into, is the last entry, so that nothing is left to redo.
C7_LinearHistory ==
    [][(lastOp'.op = "push" /\ index < Len(command_list))
          => /\ index' = Len(command_list')
             /\ IF lastOp'.merged
                THEN /\ index' = index
                     /\ SubSeq(command_list', 1, index - 1)
                            = SubSeq(command_list, 1, index - 1)
                     /\ command_list'[index'].new = lastOp'.cmd.new
                ELSE /\ index' = index + 1
                     /\ SubSeq(command_list', 1, index) = SubSeq(command_list, 1, index)
                     /\ command_list'[index'] = lastOp'.cmd]_vars

\* a push that discarded two undone commands
C7_Witness ==
    /\ lastOp.op = "push"
    /\ lastOp.dropped = 2
    /\ index = Len(command_list)

\* The SelectToggle that the last push, undo or redo ran, and the selection
\* it left its item with.
Toggled ==
    IF lastOp.op \in {"push", "redo"} /\ index > 0 /\ command_list[index].id = SelectId
    THEN [on |-> TRUE, node |-> command_list[index].node,
          selected |-> command_list[index].newSelect]
    ELSE IF lastOp.op = "undo" /\ command_list[index + 1].id = SelectId
    THEN [on |-> TRUE, node |-> command_list[index + 1].node,
          selected |-> ~command_list[index + 1].newSelect]
    ELSE [on |-> FALSE, node |-> 0, selected |-> FALSE]

Below(n) == subtree(tree, n) \ {n}

RECURSIVE Ancestors(_)
Ancestors(n) ==
    IF tree[n].parent = 0 THEN {} ELSE {tree[n].parent} \cup Ancestors(tree[n].parent)

Selected(n) ==
    ~tree[n].checkable \/ getXccdfItemInternalSelected(policySelects, tree[n].item)

\* C6 (as stated): after a group is re-selected, by the user, by undo or by
\* redo, every node below it is enabled.
C6_ReselectEnablesAll ==
    (Toggled.on /\ Toggled.selected) => \A d \in Below(Toggled.node) : tree[d].enabled

\* C6: after a group is unselected, by the user, by undo or by redo, every
\* node below it, at any depth, is disabled; after it is re-selected, every
\* node below it whose ancestors are all selected is enabled.
C6_SelectionPropagation ==
    Toggled.on =>
        \A d \in Below(Toggled.node) :
            IF Toggled.selected
            THEN (\A a \in Ancestors(d) : Selected(a)) => tree[d].enabled
            ELSE ~tree[d].enabled

\* an undo has re-selected G1, and R, three groups below it, is enabled again
C6_Witness ==
    /\ lastOp.op = "undo"
    /\ Toggled.on /\ Toggled.selected
    /\ tree[Toggled.node].item = "G1"
    /\ Len(command_list) >= 2
    /\ \E d \in Below(Toggled.node) :
           /\ tree[d].item = "R"
           /\ Cardinality(Ancestors(d) \cap Below(Toggled.node)) >= 2
           /\ tree[d].enabled

\* C8 (as stated): a close attempt that the user declines leaves the session
\* open, the history, the overrides and the host untouched, and the two
\* session flags as they were.
C8_DeclineChangesNothing ==
    [][(lastOp'.op \in {"close", "deleteProfileAndDiscard"} /\ lastOp'.answer = "No")
          => /\ phase' = "open"
             /\ command_list' = command_list /\ index' = index
             /\ profileSelects' = profileSelects /\ setvalues' = setvalues
             /\ notified' = notified
             /\ mChangesConfirmed' = mChangesConfirmed
             /\ mNewProfile' = mNewProfile]_vars

\* C9: the host is not notified while the session is open; a close that goes
\* through notifies it once, with changesConfirmed true exactly for
\* confirmAndClose, which undoes nothing and leaves every edit in the model;
\* an unconfirmed close notifies with the history already at position 0.  A
\* session without a parent window has no host to notify.
C9_CloseNotification ==
    [][/\ phase' = "open" => notified' = <<>>
       /\ (phase = "open" /\ phase' = "closed")
            => /\ mChangesConfirmed' = (lastOp'.op = "confirmAndClose")
               /\ notified' = IF mParentMainWindow
                              THEN <<[newProfile |-> mNewProfile',
                                      changesConfirmed |-> lastOp'.op = "confirmAndClose",
                                      index |-> index']>>
                              ELSE <<>>
               /\ IF lastOp'.op = "confirmAndClose"
                  THEN /\ command_list' = command_list /\ index' = index
                       /\ profileSelects' = profileSelects
                       /\ policySelects' = policySelects
                       /\ setvalues' = setvalues
                       /\ titles' = titles /\ descriptions' = descriptions
                  ELSE index' = 0]_vars

\* an unconfirmed close of a session with two applied commands was accepted
\* and the host notified
C9_Witness ==
    /\ phase = "closed"
    /\ lastOp.op = "close" /\ lastOp.answer = "Yes"
    /\ Len(notified) = 1 /\ ~notified[1].changesConfirmed
    /\ Len(command_list) = 2
    /\ Overrides >= 2

\* the backing items of a node's display children, in display order
ChildItems(n) == [k \in DOMAIN tree[n].children |-> tree[tree[n].children[k]].item]

\* Values before Rules and Groups, and each of the two in document order
Ordered(n) ==
    LET items == ChildItems(n)
    IN \A a, b \in DOMAIN items :
          a < b =>
              /\ ~(~IsValue(items[a]) /\ IsValue(items[b]))
              /\ (/\ IsValue(items[a]) = IsValue(items[b])
                  /\ DocumentPosition(tree[n].item, items[a]) > 0
                  /\ DocumentPosition(tree[n].item, items[b]) > 0)
                    => DocumentPosition(tree[n].item, items[a])
                           <= DocumentPosition(tree[n].item, items[b])

\* C10 (as stated): after a recursive synchronise, whatever children the
\* node had before, every Group or Benchmark node has its Value children
\* before its Rule and Group children, each of the two in document order.
C10_OrderedAfterSynchronize ==
    lastOp.op = "synchronize" =>
        \A n \in Nodes :
            xccdf_item_get_type(tree[n].item) \in {XCCDF_GROUP, XCCDF_BENCHMARK}
                => Ordered(n)

\* The command the last push, undo or redo ran, and what it wrote.
Ran ==
    IF lastOp.op = "push" THEN [on |-> TRUE, cmd |-> lastOp.cmd, forward |-> TRUE]
    ELSE IF lastOp.op = "redo" THEN [on |-> TRUE, cmd |-> command_list[index], forward |-> TRUE]
    ELSE IF lastOp.op = "undo"
    THEN [on |-> TRUE, cmd |-> command_list[index + 1], forward |-> FALSE]
    ELSE [on |-> FALSE, cmd |-> NoCmd, forward |-> FALSE]

WrittenSelect == IF Ran.forward THEN Ran.cmd.newSelect ELSE ~Ran.cmd.newSelect

WrittenText == IF Ran.forward THEN Ran.cmd.new ELSE Ran.cmd.old

Untouched ==
    /\ titles' = titles /\ descriptions' = descriptions
    /\ profileSelects' = profileSelects /\ policySelects' = policySelects
    /\ setvalues' = setvalues
    /\ EffectiveState(World)' = EffectiveState(World)
    /\ command_list' = command_list /\ index' = index

\* C12: an edit of the title of a profile that has no title text, or of the
\* description of a profile that has no description text, fails, and leaves
\* the title, the description, the selections, the values and the history
\* (its entries and its position) as they were.
C12_NoEditableText ==
    [][/\ (lastOp'.op = "push" /\ lastOp'.cmd.id = TitleId /\ titles = <<>>)
            => (phase' = "failed" /\ Untouched)
       /\ (lastOp'.op = "push" /\ lastOp'.cmd.id = DescriptionId /\ descriptions = <<>>)
            => (phase' = "failed" /\ Untouched)]_vars

\* the title edit failed in a session whose history holds a description change
\* and an undone SelectToggle
C12_Witness ==
    /\ phase = "failed"
    /\ lastOp.op = "push" /\ lastOp.cmd.id = TitleId
    /\ titles = <<>>
    /\ Len(command_list) = 2 /\ index = 1
    /\ command_list[1].id = DescriptionId /\ command_list[2].id = SelectId

\* no display tree, no shown window, no history
NoSession ==
    /\ phase \notin {"open", "closed"}
    /\ tree = <<>>
    /\ command_list = <<>> /\ index = 0
    /\ notified = <<>>

\* C13 (as stated): a construction with a NULL policy, a policy whose profile
\* is NULL, or a NULL benchmark fails with the construction error, and no
\* session exists: no display tree, no shown window, no history.
C13_ConstructionFails ==
    (lastOp.op = "open" /\ lastOp.answer # "") => (phase = "failed" /\ NoSession)

\* C14 (as stated): whatever check boxes were toggled, undone and redone, a
\* display node is disabled exactly when one of its ancestors is unselected.
C14_DisabledIffAncestorUnselected ==
    phase = "open" =>
        \A n \in Nodes : (~tree[n].enabled) <=> (\E a \in Ancestors(n) : ~Selected(a))

\* C15: an undo() or redo() of any command leaves the history entries and
\* their order as they are and only moves the position by one, although the
\* tree re-synchronisation of a SelectToggle changes the node's check state
\* and the tree emits itemChanged for it; and the synchronize counter is
\* back at 0 when the handler returns.
C15_UndoRedoKeepHistory ==
    [][/\ lastOp'.op = "undo"
            => (command_list' = command_list /\ index' = index - 1 /\ phase' = "open")
       /\ lastOp'.op = "redo"
            => (command_list' = command_list /\ index' = index + 1 /\ phase' = "open")
       /\ mSynchronizeItemLock' = 0]_vars

\* the undo of a SelectToggle has changed the node's check state, with
\* another entry left to redo after it
C15_Witness ==
    /\ lastOp.op = "undo"
    /\ Len(command_list) = index + 2
    /\ command_list[index + 1].id = SelectId
    /\ tree[command_list[index + 1].node].checked = ~command_list[index + 1].newSelect
    /\ opened.tree[command_list[index + 1].node].checked = ~command_list[index + 1].newSelect

\* C16: when a push has returned, whether the command was appended or merged
\* into the entry at the position, the push has not failed and the effective
\* state of the command's target is the command's new value: the item's
\* selection, the value item's value, the title or the description.
C16_PushTakesEffect ==
    lastOp.op = "push" =>
        /\ phase = "open"
        /\ lastOp.cmd.id = SelectId
              => getXccdfItemInternalSelected(policySelects, tree[lastOp.cmd.node].item)
                     = lastOp.cmd.newSelect
        /\ lastOp.cmd.id = ValueId
              => getCurrentValueValue(World, lastOp.cmd.value) = lastOp.cmd.new
        /\ lastOp.cmd.id = TitleId => getProfileTitle(World) = lastOp.cmd.new
        /\ lastOp.cmd.id = DescriptionId => getProfileDescription(World) = lastOp.cmd.new

\* a ValueChange merged into the entry at the position has changed the
\* item's effective value
C16_Witness ==
    /\ lastOp.op = "push" /\ lastOp.merged /\ lastOp.cmd.id = ValueId
    /\ lastOp.cmd.new # lastOp.cmd.old
    /\ getCurrentValueValue(World, lastOp.cmd.value) = lastOp.cmd.new
    /\ Len(setvalues) >= 2
    /\ setvalues[Len(setvalues) - 1].value # lastOp.cmd.new

\* the effective state after the new values of history entries 1 .. k have
\* been applied, in order, to the state the session was opened with
RECURSIVE Replay(_)
Replay(k) ==
    IF k = 0 THEN EffectiveState(opened)
    ELSE LET s == Replay(k - 1)
             c == command_list[k]
         IN CASE c.id = SelectId -> [s EXCEPT !.selected[tree[c.node].item] = c.newSelect]
              [] c.id = ValueId -> [s EXCEPT !.value[c.value] = c.new]
              [] c.id = TitleId -> [s EXCEPT !.title = c.new]
              [] c.id = DescriptionId -> [s EXCEPT !.description = c.new]

\* C17: after every push, undo, redo and reset, the effective selections,
\* values, title and description are those that the new values of the history
\* entries below the position give, applied in order to the state the session
\* was opened with; and they change in no step but a push, an undo, a redo or
\* the reset of a close.
C17_HistoryDeterminesState ==
    [][/\ (EffectiveState(World) = Replay(index))'
       /\ (EffectiveState(World))' # EffectiveState(World)
            => lastOp'.op \in {"push", "undo", "redo", "close", "deleteProfileAndDiscard"}]_vars

\* three entries of different kinds in the history, the last of them undone,
\* and the state differs from the one the session was opened with
C17_Witness ==
    /\ lastOp.op = "undo"
    /\ Len(command_list) = 3 /\ index = 2
    /\ Cardinality({command_list[k].id : k \in 1..3}) = 3
    /\ EffectiveState(World) = Replay(2)
    /\ Replay(2) # Replay(1) /\ Replay(1) # Replay(0) /\ Replay(2) # Replay(0)

\* C18 (as stated): after a recursive synchronise of the root, whatever
\* display children it had, every child whose item the benchmark no longer
\* lists is deleted, every child whose item it still lists is the same node
\* as before, and there is exactly one display child per listed item.
C18_PruneAndReuse ==
    lastOp.op = "synchronize" =>
        LET kids == tree[RootNode].children
            before == Range(opened.tree[RootNode].children)
            listed == Range(xccdf_get_values("B") \o xccdf_get_content("B"))
        IN /\ \A c \in before :
                  IF opened.tree[c].item \in listed
                  THEN c \in Range(kids) /\ tree[c].alive
                           /\ tree[c].item = opened.tree[c].item
                  ELSE c \notin Range(kids) /\ ~tree[c].alive
           /\ \A i \in listed :
                  Cardinality({k \in DOMAIN kids : tree[kids[k]].item = i}) = 1
           /\ Len(kids) = Cardinality(listed)

\* C19: whatever check boxes were toggled, undone and redone, every Group and
\* Rule node is checkable and is checked exactly when its item's effective
\* selection is true, and the Value nodes and the root Benchmark node are not
\* checkable.
C19_CheckStateMirrorsPolicy ==
    phase = "open" =>
        \A n \in Nodes :
            IF xccdf_item_get_type(tree[n].item) \in {XCCDF_GROUP, XCCDF_RULE}
            THEN /\ tree[n].checkable
                 /\ tree[n].checked
                        = getXccdfItemInternalSelected(policySelects, tree[n].item)
            ELSE ~tree[n].checkable

\* an undo has taken a group's check mark away again, in a session opened
\* with another item unselected
C19_Witness ==
    /\ lastOp.op = "undo"
    /\ Toggled.on /\ ~Toggled.selected
    /\ xccdf_item_get_type(tree[Toggled.node].item) = XCCDF_GROUP
    /\ ~tree[Toggled.node].checked
    /\ ~opened.tree[Toggled.node].checked
    /\ \E n \in Nodes : n # Toggled.node /\ tree[n].checkable /\ ~tree[n].checked
    /\ \E n \in Nodes : tree[n].checkable /\ tree[n].checked

\* the kind of the command pushed last: every push leaves its entry last, and
\* undo and redo leave the entries alone
LastPushed == IF command_list = <<>> THEN 0 ELSE command_list[Len(command_list)].id

\* a description change pushed onto a title change, or the reverse, is a
\* second entry above it
TwoKindsTwoEntries ==
    (/\ lastOp'.op = "push"
     /\ index > 0
     /\ {command_list[index].id, lastOp'.cmd.id} = {TitleId, DescriptionId})
        => /\ index' = index + 1
           /\ command_list'[index] = command_list[index]
           /\ command_list'[index'] = lastOp'.cmd

\* C20 (as stated): a run of pushes of one of the two kinds, with no other
\* push in between, leaves one entry, the last one, whose old text is the
\* text before the first push of the run and whose new text is the one pushed
\* last.
C20_RunHasTextBeforeRun ==
    [][/\ \A kind \in {TitleId, DescriptionId} :
              (lastOp'.op = "push" /\ lastOp'.cmd.id = kind)
                 => /\ index' = Len(command_list')
                    /\ command_list'[index'].id = kind
                    /\ command_list'[index'].new = lastOp'.cmd.new
                    /\ command_list'[index'].old
                          = IF LastPushed = kind
                            THEN command_list[Len(command_list)].old
                            ELSE IF kind = TitleId THEN getProfileTitle(World)
                            ELSE getProfileDescription(World)
       /\ TwoKindsTwoEntries]_vars

\* C20: a title (description) change pushed while the entry at the position
\* is a title (description) change adds no entry: it replaces that entry's
\* new text, and the entry's old text stays; pushed otherwise, it becomes a
\* new entry with the text before the push as its old text.  Either way the
\* entry is the last one, and its undo restores its old text.  A description
\* change pushed onto a title change, or the reverse, is a second entry.
C20_TextCoalescing ==
    [][/\ \A kind \in {TitleId, DescriptionId} :
              (lastOp'.op = "push" /\ lastOp'.cmd.id = kind)
                 => /\ index' = Len(command_list')
                    /\ IF index > 0 /\ command_list[index].id = kind
                       THEN /\ index' = index
                            /\ command_list'
                                  = [SubSeq(command_list, 1, index)
                                        EXCEPT ![index].new = lastOp'.cmd.new]
                       ELSE /\ index' = index + 1
                            /\ command_list'[index'] = lastOp'.cmd
                            /\ lastOp'.cmd.old
                                  = IF kind = TitleId THEN getProfileTitle(World)
                                    ELSE getProfileDescription(World)
       /\ (lastOp'.op = "undo" /\ command_list[index].id = TitleId)
             => getProfileTitle(World)' = command_list[index].old
       /\ (lastOp'.op = "undo" /\ command_list[index].id = DescriptionId)
             => getProfileDescription(World)' = command_list[index].old
       /\ TwoKindsTwoEntries]_vars

\* three title changes pushed in a row onto a description change are one
\* entry, from the title before the first to the title pushed last
C20_Witness ==
    /\ lastOp.op = "push" /\ lastOp.cmd.id = TitleId /\ lastOp.run /\ lastOp.merged
    /\ index = 2 /\ Len(command_list) = 2
    /\ command_list[1].id = DescriptionId
    /\ command_list[2].old # command_list[2].new
    /\ command_list[2].old = getProfileTitle(opened)
    /\ getProfileTitle(World) = command_list[2].new

\* the node is not checkable, or is checked
Ticked(n) == ~tree[n].checkable \/ tree[n].checked

\* C21 (as stated): after the initial build and its enablement pass, a node
\* is enabled exactly when it is not checkable or checked and all of its
\* ancestors are enabled.
C21_EnabledIffTickedBelowEnabled ==
    (lastOp.op = "open" /\ phase = "open") =>
        \A n \in Nodes :
            tree[n].enabled <=> (Ticked(n) /\ \A a \in Ancestors(n) : tree[a].enabled)

\* C21: after the initial build and its enablement pass, a node is enabled
\* exactly when each of its ancestors is not checkable or checked, which is
\* when its parent is enabled and is not checkable or checked; the node's
\* own check state does not count, and the root is enabled.
C21_EnabledIffAncestorsTicked ==
    (lastOp.op = "open" /\ phase = "open") =>
        /\ tree[RootNode].enabled
        /\ \A n \in Nodes :
              /\ tree[n].enabled <=> (\A a \in Ancestors(n) : Ticked(a))
              /\ n # RootNode
                    => (tree[n].enabled
                           <=> (tree[tree[n].parent].enabled /\ Ticked(tree[n].parent)))

\* a session opened on a profile that unselects G1 and R: G2, G3 and R are
\* disabled below G1
C21_Witness ==
    /\ lastOp.op = "open" /\ phase = "open"
    /\ \E g, r \in Nodes :
          /\ tree[g].item = "G1" /\ ~tree[g].checked /\ tree[g].enabled
          /\ tree[r].item = "R" /\ ~tree[r].checked /\ ~tree[r].enabled
          /\ \A d \in Below(g) : ~tree[d].enabled
    /\ \E v \in Nodes : tree[v].item = "V1" /\ tree[v].enabled

\* the languages a title or description entry may be tagged with
Languages == {OSCAP_LANG_DEFAULT, "fr", "de"}

\* the text sets a profile may hold: one entry per language, in any order
TextLists(strings) ==
    {s \in UNION {[1..k -> [lang : Languages, text : strings]] : k \in 1..MaxTexts} :
        \A a, b \in DOMAIN s : a # b => s[a].lang # s[b].lang}

\* Profiles whose title or description has entries in several languages:
\* edits of the two fields, undo and redo.
InitTexts ==
    \/ InitOn({<<>>}, TextLists(TitleStrings), {DefaultDescription}, {FALSE}, {TRUE})
    \/ InitOn({<<>>}, {DefaultTitle}, TextLists(DescStrings), {FALSE}, {TRUE})

NextTexts ==
    \/ \E t \in TitleStrings : UserEditTitle(t, CloseHist)
    \/ \E d \in DescStrings : UserEditDescription(d, CloseHist)
    \/ Undo(CloseOverrides)
    \/ Redo(CloseOverrides)

SpecTexts == InitTexts /\ [][NextTexts]_vars

\* the entry of a non-empty text set that a mutation is to write: the one
\* tagged with the default language, else the first
EntryToWrite(texts) ==
    IF \E k \in DOMAIN texts : texts[k].lang = OSCAP_LANG_DEFAULT
    THEN CHOOSE k \in DOMAIN texts : texts[k].lang = OSCAP_LANG_DEFAULT
    ELSE 1

\* C22: a title (description) change, run by a push, an undo or a redo on a
\* non-empty text set, rewrites one entry only, the one tagged with the
\* default language or else the first, which then carries the text written
\* and the default language tag; every other entry stays as it was, and the
\* title (description) read afterwards is the text written.
C22_TextEntryRule ==
    [][/\ (Ran'.on /\ Ran'.cmd.id = TitleId)
            => /\ phase' = "open"
               /\ titles' = [titles EXCEPT ![EntryToWrite(titles)] =
                                [lang |-> OSCAP_LANG_DEFAULT, text |-> WrittenText']]
               /\ descriptions' = descriptions
               /\ getProfileTitle(World)' = WrittenText'
       /\ (Ran'.on /\ Ran'.cmd.id = DescriptionId)
            => /\ phase' = "open"
               /\ descriptions' = [descriptions EXCEPT ![EntryToWrite(descriptions)] =
                                      [lang |-> OSCAP_LANG_DEFAULT, text |-> WrittenText']]
               /\ titles' = titles
               /\ getProfileDescription(World)' = WrittenText']_vars

\* a title was pushed on a profile with three title entries, the second of
\* them in the default language: it alone has changed
C22_Witness ==
    /\ lastOp.op = "push" /\ lastOp.cmd.id = TitleId
    /\ Len(titles) = 3
    /\ opened.titles[2].lang = OSCAP_LANG_DEFAULT
    /\ titles[2] = [lang |-> OSCAP_LANG_DEFAULT, text |-> lastOp.cmd.new]
    /\ opened.titles[2].text # lastOp.cmd.new
    /\ titles[1] = opened.titles[1] /\ titles[3] = opened.titles[3]
    /\ getProfileTitle(World) = lastOp.cmd.new

\* a description was pushed on a profile with no description in the default
\* language: the first entry took the text and the default language tag
C22_FallbackReached ==
    /\ lastOp.op = "push" /\ lastOp.cmd.id = DescriptionId
    /\ Len(descriptions) = 2
    /\ \A k \in 1..2 : opened.descriptions[k].lang # OSCAP_LANG_DEFAULT
    /\ descriptions[1] = [lang |-> OSCAP_LANG_DEFAULT, text |-> lastOp.cmd.new]
    /\ descriptions[2] = opened.descriptions[2]

\* C23: once a push, an undo or a redo of a title or description change is
\* over, the profile panel's two fields show the profile's title and
\* description; once one of a ValueChange is over, the item panel, when it
\* shows a Value, shows that Value's current value; and in each case neither
\* panel is left in a refresh.
C23_ViewsFollowModel ==
    (phase = "open" /\ Ran.on /\ Ran.cmd.id \in {TitleId, DescriptionId, ValueId})
       => /\ Ran.cmd.id \in {TitleId, DescriptionId}
               => /\ profilePanel.title = getProfileTitle(World)
                  /\ profilePanel.description = getProfileDescription(World)
          /\ (Ran.cmd.id = ValueId /\ itemPanel.mXccdfItem \in ValueItems)
               => itemPanel.valueComboBox
                      = getCurrentValueValue(World, itemPanel.mXccdfItem)
          /\ ~profilePanel.mRefreshInProgress
          /\ ~itemPanel.mRefreshInProgress

\* a ValueChange of the Value on show was undone, and the value box went back
\* to the value from before the change
C23_Witness ==
    /\ lastOp.op = "undo"
    /\ command_list[index + 1].id = ValueId
    /\ command_list[index + 1].value = itemPanel.mXccdfItem
    /\ command_list[index + 1].old # command_list[index + 1].new
    /\ itemPanel.valueComboBox = command_list[index + 1].old
    /\ ~itemPanel.mRefreshInProgress

\* a description change was undone below a title change still in force
C23_DescriptionReached ==
    /\ lastOp.op = "undo"
    /\ command_list[index + 1].id = DescriptionId
    /\ command_list[index + 1].old # command_list[index + 1].new
    /\ profilePanel.description = command_list[index + 1].old
    /\ index = 1 /\ command_list[1].id = TitleId
    /\ profilePanel.title = command_list[1].new

\* C24: the redo() or undo() that a push, an undo or a redo runs changes the
\* effective state of its own target at most: a SelectToggle leaves the
\* selection of every other item, every value, the title and the description
\* as they were; a ValueChange leaves every other Value's value, every
\* selection, the title and the description; a title change leaves the
\* description, a description change the title, and both leave every
\* selection and every value.
C24_CommandFrame ==
    [][LET before == EffectiveState(World)
           after == EffectiveState(World)'
           c == Ran'.cmd
       IN (phase' = "open" /\ Ran'.on)
            => /\ c.id = SelectId
                    => /\ \A i \in SelectableItems \ {tree[c.node].item} :
                              after.selected[i] = before.selected[i]
                       /\ after.value = before.value
                       /\ after.title = before.title
                       /\ after.description = before.description
               /\ c.id = ValueId
                    => /\ \A v \in ValueItems \ {c.value} :
                              after.value[v] = before.value[v]
                       /\ after.selected = before.selected
                       /\ after.title = before.title
                       /\ after.description = before.description
               /\ c.id = TitleId
                    => /\ after.description = before.description
                       /\ descriptions' = descriptions
                       /\ after.selected = before.selected
                       /\ after.value = before.value
               /\ c.id = DescriptionId
                    => /\ after.title = before.title
                       /\ titles' = titles
                       /\ after.selected = before.selected
                       /\ after.value = before.value]_vars

\* a SelectToggle was undone above a ValueChange: the item is back to its
\* selection from before, and the Value still has the value it was given
C24_Witness ==
    /\ lastOp.op = "undo"
    /\ index = 1 /\ Len(command_list) = 2
    /\ command_list[1].id = ValueId
    /\ command_list[1].old # command_list[1].new
    /\ command_list[2].id = SelectId
    /\ getCurrentValueValue(World, command_list[1].value) = command_list[1].new
    /\ getXccdfItemInternalSelected(policySelects, tree[command_list[2].node].item)
           = ~command_list[2].newSelect

\* a ValueChange of one Value was pushed while the other Value holds a value
\* that is not its default
C24_OtherValueReached ==
    /\ lastOp.op = "push" /\ lastOp.cmd.id = ValueId
    /\ \E v \in ValueItems \ {lastOp.cmd.value} :
          /\ getCurrentValueValue(World, v) # xccdf_value_default(v)
          /\ getCurrentValueValue(World, v) # lastOp.cmd.new

\* the list t is the list s with entries added at its end
Extended(s, t) == Len(s) <= Len(t) /\ SubSeq(t, 1, Len(s)) = s

\* C25: no step takes an override away: the profile's selects and setvalues
\* and the policy's selects only grow at the end. The redo() or undo() that a
\* push, an undo or a redo runs adds, for a SelectToggle, one select for the
\* command's item to the profile and the same one to the policy and no
\* setvalue; for a ValueChange, one setvalue for the command's Value and no
\* select; for a title or description change, nothing.
C25_OverridesAppendOnly ==
    [][/\ Extended(profileSelects, profileSelects')
       /\ Extended(policySelects, policySelects')
       /\ Extended(setvalues, setvalues')
       /\ (Ran'.on /\ Ran'.cmd.id = SelectId)
            => /\ profileSelects' = Append(profileSelects,
                      [item |-> tree[Ran'.cmd.node].item, selected |-> WrittenSelect'])
               /\ policySelects' = Append(policySelects,
                      [item |-> tree[Ran'.cmd.node].item, selected |-> WrittenSelect'])
               /\ setvalues' = setvalues
       /\ (Ran'.on /\ Ran'.cmd.id = ValueId)
            => /\ setvalues' = Append(setvalues,
                      [item |-> Ran'.cmd.value, value |-> WrittenText'])
               /\ profileSelects' = profileSelects
               /\ policySelects' = policySelects
       /\ (Ran'.on /\ Ran'.cmd.id \in {TitleId, DescriptionId})
            => /\ setvalues' = setvalues
               /\ profileSelects' = profileSelects
               /\ policySelects' = policySelects]_vars

\* a SelectToggle was pushed and undone: every selection, every value, the
\* title and the description are those of the session's start, and the
\* profile and the policy hold two selects more
C25_Witness ==
    /\ lastOp.op = "undo"
    /\ index = 0 /\ Len(command_list) = 1
    /\ command_list[1].id = SelectId
    /\ EffectiveState(World) = EffectiveState(opened)
    /\ Len(profileSelects) = Len(opened.profileSelects) + 2
    /\ Len(policySelects) = Len(opened.policySelects) + 2
    /\ setvalues = opened.setvalues

\* a ValueChange was pushed and undone: the Value has its value from before,
\* and the profile holds two setvalues more
C25_ValueReached ==
    /\ lastOp.op = "undo"
    /\ index = 0 /\ Len(command_list) = 1
    /\ command_list[1].id = ValueId
    /\ EffectiveState(World).value = EffectiveState(opened).value
    /\ Len(setvalues) = Len(opened.setvalues) + 2
    /\ profileSelects = opened.profileSelects

====
